---- MODULE Spec2Model ----
(***************************************************************************)
(* Model of sysconfig_windows.py: the module-level import guards, the      *)
(* SystemConfigCollector (gather_info, write_config) and main().           *)
(*                                                                         *)
(* The program is one sequential run.  pc is the position of the run in    *)
(* the source.  The environment (availability of psutil and PyYAML, the    *)
(* command line, the files that exist before the run, and every fault a    *)
(* library or system call may raise) is chosen nondeterministically.       *)
(* Faults are Python Exceptions (what "except Exception" catches).         *)
(***************************************************************************)
EXTENDS Integers, Sequences, FiniteSets, TLC

(***************************************************************************)
(* Bounds of the model.                                                    *)
(***************************************************************************)
MaxPartitions == 2     \* longest list psutil.disk_partitions() returns
MaxArgs == 1           \* most command-line arguments after the script name

(***************************************************************************)
(* Program constants.                                                      *)
(***************************************************************************)
DefaultPath == "system_config.yaml"
OtherPath == "out.yaml"
Paths == {DefaultPath, OtherPath}
ScriptName == "sysconfig_windows.py"
\* the devices of the host, in the order disk_partitions() lists them
Devices == <<"C:", "D:", "E:", "F:">>

MetricSections == {"cpu", "memory", "disk", "network"}
SectionOrder ==
  <<"os", "cpu", "memory", "disk", "network", "environment", "timestamp">>

MsgNoYaml == "PyYAML is not installed. Please install it using 'pip install PyYAML'"
MsgSaved == "Configuration file successfully saved to"
MsgWriteFailed == "Failed to write configuration file:"
MsgMainError == "An error occurred:"

(***************************************************************************)
(* Values stored in the snapshot.  kind is the Python type of the value,   *)
(* text the content of a string, items the elements of a list.            *)
(***************************************************************************)
Val(kind, text, items) == [kind |-> kind, text |-> text, items |-> items]
StrVal(text) == Val("str", text, <<>>)
DictVal(text) == Val("dict", text, <<>>)
ListVal(items) == Val("list", "", items)

Unavailable == StrVal("psutil module not available")

ErrorText(section) ==
  CASE section = "cpu" -> "Error collecting CPU info:"
    [] section = "memory" -> "Error collecting memory info:"
    [] section = "disk" -> "Error collecting disk info:"
    [] section = "network" -> "Error collecting network info:"
    [] section = "environment" -> "Error collecting environment variables:"

ErrorVal(section) == StrVal(ErrorText(section))

OsRecord == DictVal("system,release,version,machine,processor")
CpuRecord == DictVal("physical_cores,total_cores,max_frequency_mhz,min_frequency_mhz,current_frequency_mhz,cpu_usage_percent")
MemoryRecord == DictVal("total_mb,available_mb,used_mb,percentage")
NetworkRecord == DictVal("interface -> addresses")
EnvironmentRecord == DictVal("os.environ")
Timestamp == StrVal("datetime.now().isoformat()")

FullKeys ==
  <<"device", "mountpoint", "fstype", "opts",
    "total_mb", "used_mb", "free_mb", "percentage">>
ReducedKeys == <<"device", "error">>

FullPartition(device) == [device |-> device, keys |-> FullKeys]
ReducedPartition(device) == [device |-> device, keys |-> ReducedKeys]

(***************************************************************************)
(* A Python dict: a sequence of entries in insertion order.               *)
(***************************************************************************)
Keys(d) == [i \in 1..Len(d) |-> d[i].key]
HasKey(d, k) == \E i \in 1..Len(d) : d[i].key = k
Get(d, k) == d[CHOOSE i \in 1..Len(d) : d[i].key = k].val

DictSet(d, k, v) ==
  IF HasKey(d, k)
    THEN [i \in 1..Len(d) |-> IF d[i].key = k THEN [key |-> k, val |-> v] ELSE d[i]]
    ELSE Append(d, [key |-> k, val |-> v])

(***************************************************************************)
(* yaml.dump(config, file, default_flow_style=False, sort_keys=False):     *)
(* one block per top-level key, in insertion order.                        *)
(***************************************************************************)
YamlDump(d) == [i \in 1..Len(d) |-> <<d[i].key, d[i].val>>]

Prefixes(s) == {SubSeq(s, 1, n) : n \in 0..Len(s)}
ProperPrefixes(s) == {SubSeq(s, 1, n) : n \in 0..(Len(s) - 1)}

(***************************************************************************)
(* Files.                                                                  *)
(***************************************************************************)
NoFile == [exists |-> FALSE, data |-> <<>>]
OldFile == [exists |-> TRUE, data |-> <<<<"previous", StrVal("previous content")>>>>]
FileOf(data) == [exists |-> TRUE, data |-> data]

NoHandle == "<closed>"

SeqsUpTo(S, n) == UNION {[1..m -> S] : m \in 0..n}
ArgvSet == {<<ScriptName>> \o args : args \in SeqsUpTo(Paths, MaxArgs)}

VARIABLES
  pc,           \* position of the run in the source
  psutil,       \* "unset", "module" or "None" (lines 20-23)
  yaml,         \* "unset", "module" or "missing" (lines 26-30)
  argv,         \* sys.argv
  fs,           \* path -> file
  fs0,          \* the files as they were before the run
  config,       \* gather_info's local dict
  partitions,   \* the list disk_partitions() returned
  disk_info,    \* the list the disk section builds
  config_data,  \* main's local: the returned snapshot
  returned,     \* gather_info has returned to main
  output_file,  \* main's local
  handle,       \* the path the writer's file object has open, or NoHandle
  buf,          \* text written to the file object, not yet flushed
  pending,      \* an exception is propagating inside write_config
  stdout,       \* sequence of printed messages
  exitCode,     \* exit status of the process
  faults,       \* the places where the environment raised a fault
  partFaults,   \* per enumerated partition: did disk_usage raise
  called,       \* psutil functions that were called
  opened        \* paths successfully opened for writing, in order

vars == <<pc, psutil, yaml, argv, fs, fs0, config, partitions, disk_info,
          config_data, returned, output_file, handle, buf, pending, stdout,
          exitCode, faults, partFaults, called, opened>>

Init ==
  /\ pc = "import_psutil"
  /\ psutil = "unset"
  /\ yaml = "unset"
  /\ argv \in ArgvSet
  /\ fs \in {[p \in Paths |-> file] : file \in {NoFile, OldFile}}
  /\ fs0 = fs
  /\ config = <<>>
  /\ partitions = <<>>
  /\ disk_info = <<>>
  /\ config_data = <<>>
  /\ returned = FALSE
  /\ output_file = ""
  /\ handle = NoHandle
  /\ buf = <<>>
  /\ pending = FALSE
  /\ stdout = <<>>
  /\ exitCode = 0
  /\ faults = {}
  /\ partFaults = <<>>
  /\ called = {}
  /\ opened = <<>>


(***************************************************************************)
(* Module level: the import guards (lines 19-30).                          *)
(***************************************************************************)
ImportPsutil ==
  /\ pc = "import_psutil"
  /\ \E available \in BOOLEAN :
       psutil' = IF available THEN "module" ELSE "None"
  /\ pc' = "import_yaml"
  /\ UNCHANGED <<yaml, argv, fs, fs0, config, partitions, disk_info,
                 config_data, returned, output_file, handle, buf, pending,
                 stdout, exitCode, faults, partFaults, called, opened>>

\* Mutant: the guard reports the missing module but does not exit.
ImportYaml_continues ==
  /\ pc = "import_yaml"
  /\ \E available \in BOOLEAN :
       IF available
         THEN /\ yaml' = "module"
              /\ UNCHANGED stdout
         ELSE /\ yaml' = "missing"
              /\ stdout' = Append(stdout, MsgNoYaml)
  /\ pc' = "main"
  /\ UNCHANGED <<psutil, argv, fs, fs0, config, partitions, disk_info,
                 config_data, returned, output_file, handle, buf, pending,
                 exitCode, faults, partFaults, called, opened>>

ImportYaml ==
  /\ pc = "import_yaml"
  /\ \E available \in BOOLEAN :
       IF available
         THEN /\ yaml' = "module"
              /\ pc' = "main"
              /\ UNCHANGED <<stdout, exitCode>>
         ELSE /\ yaml' = "missing"
              /\ stdout' = Append(stdout, MsgNoYaml)
              /\ exitCode' = 1
              /\ pc' = "done"
  /\ UNCHANGED <<psutil, argv, fs, fs0, config, partitions, disk_info,
                 config_data, returned, output_file, handle, buf, pending,
                 faults, partFaults, called, opened>>

(***************************************************************************)
(* main() up to the call of gather_info (lines 174-176), and the start of  *)
(* gather_info (line 49).                                                  *)
(***************************************************************************)
MainStart ==
  /\ pc = "main"
  /\ config' = <<>>
  /\ pc' = "os"
  /\ UNCHANGED <<psutil, yaml, argv, fs, fs0, partitions, disk_info,
                 config_data, returned, output_file, handle, buf, pending,
                 stdout, exitCode, faults, partFaults, called, opened>>

(***************************************************************************)
(* gather_info.  The OS section (lines 51-58) has no failure boundary: a   *)
(* fault of the platform module propagates to main's handler.              *)
(***************************************************************************)
OsSection ==
  /\ pc = "os"
  /\ \E fault \in BOOLEAN :
       IF fault
         THEN /\ faults' = faults \cup {"os"}
              /\ pc' = "main_except"
              /\ UNCHANGED config
         ELSE /\ config' = DictSet(config, "os", OsRecord)
              /\ pc' = "cpu"
              /\ UNCHANGED faults
  /\ UNCHANGED <<psutil, yaml, argv, fs, fs0, partitions, disk_info,
                 config_data, returned, output_file, handle, buf, pending,
                 stdout, exitCode, partFaults, called, opened>>

\* Mutant: the availability of psutil is not tested before it is used.
PsutilAvailable_unguarded == TRUE

\* "if psutil:" (lines 61, 78, 93, 123)
PsutilAvailable == psutil = "module"

\* Mutant: the section has no failure boundary, its fault leaves gather_info.
GuardedSection_uncontained(section, calls, record, next) ==
  IF PsutilAvailable
    THEN /\ called' = called \cup calls
         /\ \E fault \in BOOLEAN :
              IF fault
                THEN /\ faults' = faults \cup {section}
                     /\ pc' = "main_except"
                     /\ UNCHANGED config
                ELSE /\ config' = DictSet(config, section, record)
                     /\ pc' = next
                     /\ UNCHANGED faults
    ELSE /\ config' = DictSet(config, section, Unavailable)
         /\ pc' = next
         /\ UNCHANGED <<called, faults>>

(***************************************************************************)
(* A section of the shape                                                  *)
(*   if psutil: try: config[k] = <record> except Exception: config[k] = .. *)
(*   else: config[k] = "psutil module not available"                       *)
(***************************************************************************)
GuardedSection(section, calls, record, next) ==
  /\ IF PsutilAvailable
       THEN /\ called' = called \cup calls
            /\ \E fault \in BOOLEAN :
                 IF fault
                   THEN /\ config' = DictSet(config, section, ErrorVal(section))
                        /\ faults' = faults \cup {section}
                   ELSE /\ config' = DictSet(config, section, record)
                        /\ UNCHANGED faults
       ELSE /\ config' = DictSet(config, section, Unavailable)
            /\ UNCHANGED <<called, faults>>
  /\ pc' = next

\* lines 60-75
CpuSection ==
  /\ pc = "cpu"
  /\ GuardedSection("cpu", {"cpu_freq", "cpu_count", "cpu_percent"},
                    CpuRecord, "memory")
  /\ UNCHANGED <<psutil, yaml, argv, fs, fs0, partitions, disk_info,
                 config_data, returned, output_file, handle, buf, pending,
                 stdout, exitCode, partFaults, opened>>

\* lines 77-90
MemorySection ==
  /\ pc = "memory"
  /\ GuardedSection("memory", {"virtual_memory"}, MemoryRecord, "disk")
  /\ UNCHANGED <<psutil, yaml, argv, fs, fs0, partitions, disk_info,
                 config_data, returned, output_file, handle, buf, pending,
                 stdout, exitCode, partFaults, opened>>

(***************************************************************************)
(* Disk section (lines 92-120).  DiskEnumerate is lines 93-96 and 117-120, *)
(* DiskUsage one iteration of the loop (lines 97-115), DiskAssign line     *)
(* 116.                                                                    *)
(***************************************************************************)
DiskEnumerate ==
  /\ pc = "disk"
  /\ IF PsutilAvailable
       THEN /\ called' = called \cup {"disk_partitions"}
            /\ \E fault \in BOOLEAN :
                 IF fault
                   THEN /\ config' = DictSet(config, "disk", ErrorVal("disk"))
                        /\ faults' = faults \cup {"disk"}
                        /\ pc' = "network"
                        /\ UNCHANGED <<partitions, disk_info>>
                   ELSE /\ partitions' \in {SubSeq(Devices, 1, n) : n \in 0..MaxPartitions}
                        /\ disk_info' = <<>>
                        /\ pc' = "disk_loop"
                        /\ UNCHANGED <<config, faults>>
       ELSE /\ config' = DictSet(config, "disk", Unavailable)
            /\ pc' = "network"
            /\ UNCHANGED <<called, faults, partitions, disk_info>>
  /\ UNCHANGED <<psutil, yaml, argv, fs, fs0, config_data, returned,
                 output_file, handle, buf, pending, stdout, exitCode,
                 partFaults, opened>>

\* Mutant: no per-partition boundary, a usage fault reaches the section's
\* handler and the records collected so far are dropped.
DiskUsage_aborts ==
  /\ pc = "disk_loop"
  /\ Len(disk_info) < Len(partitions)
  /\ LET partition == partitions[Len(disk_info) + 1] IN
       \E fault \in BOOLEAN :
         IF fault
           THEN /\ config' = DictSet(config, "disk", ErrorVal("disk"))
                /\ partFaults' = Append(partFaults, TRUE)
                /\ pc' = "network"
                /\ UNCHANGED disk_info
           ELSE /\ disk_info' = Append(disk_info, FullPartition(partition))
                /\ partFaults' = Append(partFaults, FALSE)
                /\ UNCHANGED <<pc, config>>
  /\ called' = called \cup {"disk_usage"}
  /\ UNCHANGED <<psutil, yaml, argv, fs, fs0, partitions,
                 config_data, returned, output_file, handle, buf, pending,
                 stdout, exitCode, faults, opened>>

DiskUsage ==
  /\ pc = "disk_loop"
  /\ Len(disk_info) < Len(partitions)
  /\ LET partition == partitions[Len(disk_info) + 1] IN
       \E fault \in BOOLEAN :
         /\ disk_info' = Append(disk_info,
                                IF fault THEN ReducedPartition(partition)
                                         ELSE FullPartition(partition))
         /\ partFaults' = Append(partFaults, fault)
  /\ called' = called \cup {"disk_usage"}
  /\ UNCHANGED <<pc, psutil, yaml, argv, fs, fs0, config, partitions,
                 config_data, returned, output_file, handle, buf, pending,
                 stdout, exitCode, faults, opened>>

DiskAssign ==
  /\ pc = "disk_loop"
  /\ Len(disk_info) = Len(partitions)
  /\ config' = DictSet(config, "disk", ListVal(disk_info))
  /\ pc' = "network"
  /\ UNCHANGED <<psutil, yaml, argv, fs, fs0, partitions, disk_info,
                 config_data, returned, output_file, handle, buf, pending,
                 stdout, exitCode, faults, partFaults, called, opened>>

\* lines 122-142
NetworkSection ==
  /\ pc = "network"
  /\ GuardedSection("network", {"net_if_addrs"}, NetworkRecord, "environment")
  /\ UNCHANGED <<psutil, yaml, argv, fs, fs0, partitions, disk_info,
                 config_data, returned, output_file, handle, buf, pending,
                 stdout, exitCode, partFaults, opened>>

\* Mutant: the handler of the environment section swallows the fault and
\* assigns nothing.
EnvironmentSection_dropsKey ==
  /\ pc = "environment"
  /\ \E fault \in BOOLEAN :
       IF fault
         THEN /\ faults' = faults \cup {"environment"}
              /\ UNCHANGED config
         ELSE /\ config' = DictSet(config, "environment", EnvironmentRecord)
              /\ UNCHANGED faults
  /\ pc' = "timestamp"
  /\ UNCHANGED <<psutil, yaml, argv, fs, fs0, partitions, disk_info,
                 config_data, returned, output_file, handle, buf, pending,
                 stdout, exitCode, partFaults, called, opened>>

\* lines 144-148
EnvironmentSection ==
  /\ pc = "environment"
  /\ \E fault \in BOOLEAN :
       IF fault
         THEN /\ config' = DictSet(config, "environment", ErrorVal("environment"))
              /\ faults' = faults \cup {"environment"}
         ELSE /\ config' = DictSet(config, "environment", EnvironmentRecord)
              /\ UNCHANGED faults
  /\ pc' = "timestamp"
  /\ UNCHANGED <<psutil, yaml, argv, fs, fs0, partitions, disk_info,
                 config_data, returned, output_file, handle, buf, pending,
                 stdout, exitCode, partFaults, called, opened>>

\* Mutant: gather_info returns before the timestamp is assigned.
TimestampSection_deferred ==
  /\ pc = "timestamp"
  /\ pc' = "return"
  /\ UNCHANGED <<psutil, yaml, argv, fs, fs0, config, partitions, disk_info,
                 config_data, returned, output_file, handle, buf, pending,
                 stdout, exitCode, faults, partFaults, called, opened>>

\* lines 150-151
TimestampSection ==
  /\ pc = "timestamp"
  /\ config' = DictSet(config, "timestamp", Timestamp)
  /\ pc' = "return"
  /\ UNCHANGED <<psutil, yaml, argv, fs, fs0, partitions, disk_info,
                 config_data, returned, output_file, handle, buf, pending,
                 stdout, exitCode, faults, partFaults, called, opened>>

(***************************************************************************)
(* "return config" (line 153), the assignment of config_data (line 176)    *)
(* and the choice of the output path (lines 178-180).  sys.argv[1] is      *)
(* argv[2] here: sequences start at 1.                                     *)
(***************************************************************************)
\* Mutant: the command-line argument is ignored.
ResolveOutput_ignoresArgument(args) == DefaultPath

ResolveOutput(args) == IF Len(args) > 1 THEN args[2] ELSE DefaultPath

GatherReturn ==
  /\ pc = "return"
  /\ config_data' = config
  /\ returned' = TRUE
  /\ output_file' = ResolveOutput(argv)
  /\ pc' = "open"
  /\ UNCHANGED <<psutil, yaml, argv, fs, fs0, config, partitions, disk_info,
                 handle, buf, pending, stdout, exitCode, faults, partFaults,
                 called, opened>>


\* Mutant: the destination is opened without truncation (mode 'a').
Open_noTruncate ==
  /\ pc = "open"
  /\ \E fault \in BOOLEAN :
       IF fault
         THEN /\ faults' = faults \cup {"open"}
              /\ pending' = TRUE
              /\ pc' = "except"
              /\ UNCHANGED <<fs, handle, buf, opened>>
         ELSE /\ fs' = [fs EXCEPT ![output_file] =
                          IF fs[output_file].exists THEN fs[output_file]
                                                    ELSE FileOf(<<>>)]
              /\ handle' = output_file
              /\ buf' = <<>>
              /\ opened' = Append(opened, output_file)
              /\ pc' = "dump"
              /\ UNCHANGED <<faults, pending>>
  /\ UNCHANGED <<psutil, yaml, argv, fs0, config, partitions, disk_info,
                 config_data, returned, output_file, stdout, exitCode,
                 partFaults, called>>

(***************************************************************************)
(* write_config (lines 155-168).  Open is open(file_path, 'w'): it either  *)
(* raises and leaves the file system alone, or creates/truncates the file. *)
(***************************************************************************)
Open ==
  /\ pc = "open"
  /\ \E fault \in BOOLEAN :
       IF fault
         THEN /\ faults' = faults \cup {"open"}
              /\ pending' = TRUE
              /\ pc' = "except"
              /\ UNCHANGED <<fs, handle, buf, opened>>
         ELSE /\ fs' = [fs EXCEPT ![output_file] = FileOf(<<>>)]
              /\ handle' = output_file
              /\ buf' = <<>>
              /\ opened' = Append(opened, output_file)
              /\ pc' = "dump"
              /\ UNCHANGED <<faults, pending>>
  /\ UNCHANGED <<psutil, yaml, argv, fs0, config, partitions, disk_info,
                 config_data, returned, output_file, stdout, exitCode,
                 partFaults, called>>

(***************************************************************************)
(* yaml.dump(config, file, ...) (line 165).  The text goes to the file     *)
(* object; a fault (a representation error, a write error, the name yaml   *)
(* being unbound) leaves only a proper prefix of the document written.     *)
(***************************************************************************)
Dump ==
  /\ pc = "dump"
  /\ \E fault \in BOOLEAN :
       IF fault \/ yaml # "module"
         THEN /\ buf' \in ProperPrefixes(YamlDump(config_data))
              /\ faults' = faults \cup {"dump"}
              /\ pending' = TRUE
         ELSE /\ buf' = YamlDump(config_data)
              /\ UNCHANGED <<faults, pending>>
  /\ pc' = "exit_with"
  /\ UNCHANGED <<psutil, yaml, argv, fs, fs0, config, partitions, disk_info,
                 config_data, returned, output_file, handle, stdout,
                 exitCode, partFaults, called, opened>>

\* Mutant: no with block, file.close() follows yaml.dump and is skipped
\* when the dump raises.
ExitWith_leaksOnFault ==
  /\ pc = "exit_with"
  /\ handle # NoHandle
  /\ IF pending
       THEN UNCHANGED <<fs, faults, pending, handle, buf>>
       ELSE /\ \E fault \in BOOLEAN :
                 IF fault /\ buf # <<>>
                   THEN /\ \E written \in ProperPrefixes(buf) :
                             fs' = [fs EXCEPT ![handle] =
                                      FileOf(fs[handle].data \o written)]
                        /\ faults' = faults \cup {"close"}
                        /\ pending' = TRUE
                   ELSE /\ fs' = [fs EXCEPT ![handle] =
                                    FileOf(fs[handle].data \o buf)]
                        /\ UNCHANGED <<faults, pending>>
            /\ handle' = NoHandle
            /\ buf' = <<>>
  /\ pc' = IF pending' THEN "except" ELSE "print_saved"
  /\ UNCHANGED <<psutil, yaml, argv, fs0, config, partitions, disk_info,
                 config_data, returned, output_file, stdout, exitCode,
                 partFaults, called, opened>>

(***************************************************************************)
(* The end of the with block (line 164): the file object is closed on      *)
(* every path.  Closing flushes the buffered text; a fault of the flush    *)
(* leaves part of it unwritten and raises, the file object being closed    *)
(* all the same.                                                           *)
(***************************************************************************)
ExitWith ==
  /\ pc = "exit_with"
  /\ handle # NoHandle
  /\ \E fault \in BOOLEAN :
       IF fault /\ buf # <<>>
         THEN /\ \E written \in ProperPrefixes(buf) :
                   fs' = [fs EXCEPT ![handle] = FileOf(fs[handle].data \o written)]
              /\ faults' = faults \cup {"close"}
              /\ pending' = TRUE
         ELSE /\ fs' = [fs EXCEPT ![handle] = FileOf(fs[handle].data \o buf)]
              /\ UNCHANGED <<faults, pending>>
  /\ handle' = NoHandle
  /\ buf' = <<>>
  /\ pc' = IF pending' THEN "except" ELSE "print_saved"
  /\ UNCHANGED <<psutil, yaml, argv, fs0, config, partitions, disk_info,
                 config_data, returned, output_file, stdout, exitCode,
                 partFaults, called, opened>>

\* line 166
PrintSaved ==
  /\ pc = "print_saved"
  /\ stdout' = Append(stdout, MsgSaved)
  /\ pc' = "main_return"
  /\ UNCHANGED <<psutil, yaml, argv, fs, fs0, config, partitions, disk_info,
                 config_data, returned, output_file, handle, buf, pending,
                 exitCode, faults, partFaults, called, opened>>

\* Mutant: the handler of write_config reports the fault and re-raises it.
ExceptWrite_reraises ==
  /\ pc = "except"
  /\ stdout' = Append(stdout, MsgWriteFailed)
  /\ pc' = "main_except"
  /\ UNCHANGED <<psutil, yaml, argv, fs, fs0, config, partitions, disk_info,
                 config_data, returned, output_file, handle, buf, pending,
                 exitCode, faults, partFaults, called, opened>>

\* lines 167-168
ExceptWrite ==
  /\ pc = "except"
  /\ stdout' = Append(stdout, MsgWriteFailed)
  /\ pending' = FALSE
  /\ pc' = "main_return"
  /\ UNCHANGED <<psutil, yaml, argv, fs, fs0, config, partitions, disk_info,
                 config_data, returned, output_file, handle, buf, exitCode,
                 faults, partFaults, called, opened>>

(***************************************************************************)
(* main() after write_config: it returns and the process exits with       *)
(* status 0; or its handler (lines 182-184) reports the fault and exits    *)
(* with status 1.                                                          *)
(***************************************************************************)
MainReturn ==
  /\ pc = "main_return"
  /\ exitCode' = 0
  /\ pc' = "done"
  /\ UNCHANGED <<psutil, yaml, argv, fs, fs0, config, partitions, disk_info,
                 config_data, returned, output_file, handle, buf, pending,
                 stdout, faults, partFaults, called, opened>>

MainExcept ==
  /\ pc = "main_except"
  /\ stdout' = Append(stdout, MsgMainError)
  /\ exitCode' = 1
  /\ pc' = "done"
  /\ UNCHANGED <<psutil, yaml, argv, fs, fs0, config, partitions, disk_info,
                 config_data, returned, output_file, handle, buf, pending,
                 faults, partFaults, called, opened>>

Next ==
  \/ ImportPsutil
  \/ ImportYaml
  \/ MainStart
  \/ OsSection
  \/ CpuSection
  \/ MemorySection
  \/ DiskEnumerate
  \/ DiskUsage
  \/ DiskAssign
  \/ NetworkSection
  \/ EnvironmentSection
  \/ TimestampSection
  \/ GatherReturn
  \/ Open
  \/ Dump
  \/ ExitWith
  \/ PrintSaved
  \/ ExceptWrite
  \/ MainReturn
  \/ MainExcept

Spec == Init /\ [][Next]_vars

TypeOK ==
  /\ pc \in {"import_psutil", "import_yaml", "main", "os", "cpu", "memory",
             "disk", "disk_loop", "network", "environment", "timestamp",
             "return", "open", "dump", "exit_with", "print_saved", "except",
             "main_return", "main_except", "done"}
  /\ psutil \in {"unset", "module", "None"}
  /\ yaml \in {"unset", "module", "missing"}
  /\ exitCode \in {0, 1}
  /\ handle \in Paths \cup {NoHandle}
  /\ Len(disk_info) <= Len(partitions)


(***************************************************************************)
(* Properties.                                                             *)
(***************************************************************************)
Range(s) == {s[i] : i \in 1..Len(s)}
Contained == {"cpu", "memory", "disk", "network", "environment"}
WriteFaults == {"open", "dump", "close"}
AfterGather ==
  {"open", "dump", "exit_with", "print_saved", "except", "main_return",
   "main_except", "done"}
WriteStarted == opened # <<>> \/ "open" \in faults

\* The value the code is to leave in a section, given the faults raised.
Expected(section) ==
  IF section \in faults THEN ErrorVal(section)
  ELSE IF section \in MetricSections /\ psutil # "module" THEN Unavailable
  ELSE CASE section = "cpu" -> CpuRecord
         [] section = "memory" -> MemoryRecord
         [] section = "disk" -> ListVal(disk_info)
         [] section = "network" -> NetworkRecord
         [] section = "environment" -> EnvironmentRecord

\* C1: every snapshot gather_info returns has exactly the seven top-level
\* keys os, cpu, memory, disk, network, environment, timestamp, in that
\* order, and every one of them holds a value (a str, a dict or a list,
\* never None), whatever psutil's availability and whichever sections fault.
C1_SevenKeysInOrder ==
  returned =>
    /\ Keys(config_data) = SectionOrder
    /\ \A i \in 1..Len(config_data) :
         config_data[i].val.kind \in {"str", "dict", "list"}

C1_Witness ==
  /\ returned
  /\ psutil = "module"
  /\ {"cpu", "environment"} \subseteq faults
  /\ Len(config_data) = 7

\* C2: a fault in any of the sections cpu, memory, disk, network,
\* environment never leaves gather_info: the section that faulted holds its
\* error string, every section that did not fault holds the value it holds
\* in a fault-free run (its structured value, or the unavailable marker
\* when psutil is absent), whatever faulted before or after it, and
\* gather_info returns to main.
C2_FaultsContained ==
  /\ \A section \in Contained :
       HasKey(config, section) => Get(config, section) = Expected(section)
  /\ returned =>
       \A section \in Contained : Get(config_data, section) = Expected(section)
  /\ (faults \cap Contained # {} /\ pc \in AfterGather) =>
       returned /\ pc # "main_except"

C2_Witness ==
  /\ returned
  /\ {"cpu", "disk"} \subseteq faults
  /\ "network" \notin faults
  /\ Get(config_data, "cpu") = ErrorVal("cpu")
  /\ Get(config_data, "memory") = MemoryRecord
  /\ Get(config_data, "network") = NetworkRecord

\* C3: when psutil is unavailable no psutil function is ever called, cpu,
\* memory, disk and network each hold the one unavailable marker, os,
\* environment and timestamp are collected all the same, the run reaches
\* the write stage, and a write that does not itself fault leaves the
\* serialized snapshot in the output file and reports success.
C3_PsutilUnavailable ==
  psutil = "None" =>
    /\ called = {}
    /\ \A section \in MetricSections :
         HasKey(config, section) => Get(config, section) = Unavailable
    /\ returned =>
         /\ \A section \in MetricSections :
              Get(config_data, section) = Unavailable
         /\ Get(config_data, "os") = OsRecord
         /\ Get(config_data, "environment")
              \in {EnvironmentRecord, ErrorVal("environment")}
         /\ Get(config_data, "timestamp") = Timestamp
    /\ (pc = "done" /\ yaml = "module" /\ "os" \notin faults) =>
         returned /\ WriteStarted
    /\ (pc = "done" /\ returned /\ faults \cap WriteFaults = {}) =>
         /\ fs[output_file] = FileOf(YamlDump(config_data))
         /\ MsgSaved \in Range(stdout)
         /\ exitCode = 0

C3_Witness ==
  /\ psutil = "None"
  /\ pc = "done"
  /\ returned
  /\ faults = {}
  /\ Get(config_data, "disk") = Unavailable
  /\ Get(config_data, "environment") = EnvironmentRecord
  /\ fs[output_file] = FileOf(YamlDump(config_data))

\* C4: when the enumeration of partitions succeeds, the disk list has one
\* record per enumerated partition, in enumeration order: the reduced
\* record (device, error) where disk_usage faulted, the full record
\* elsewhere; a usage fault never makes the disk section an error string.
PartitionRecord(i) ==
  IF partFaults[i] THEN ReducedPartition(partitions[i])
                   ELSE FullPartition(partitions[i])

C4_PartitionIndependent ==
  /\ Len(partFaults) = Len(disk_info)
  /\ \A i \in 1..Len(disk_info) : disk_info[i] = PartitionRecord(i)
  /\ (psutil = "module" /\ "disk" \notin faults /\ HasKey(config, "disk")) =>
       LET disk == Get(config, "disk") IN
         /\ disk.kind = "list"
         /\ Len(disk.items) = Len(partitions)
         /\ \A i \in 1..Len(partitions) : disk.items[i] = PartitionRecord(i)

C4_Witness ==
  /\ returned
  /\ Len(partitions) = 2
  /\ partFaults = <<TRUE, FALSE>>
  /\ Get(config_data, "disk").items
       = <<ReducedPartition(partitions[1]), FullPartition(partitions[2])>>

\* C5: the collector runs fully before the writer: whenever the
\* destination has been opened (or its opening attempted) or any file
\* differs from what it was before the run, gather_info has returned with
\* all seven sections assigned; and once the snapshot is handed to main it
\* is never modified again.
C5_CollectThenWrite ==
  /\ [](WriteStarted \/ fs # fs0 \/ handle # NoHandle =>
          /\ returned
          /\ \A i \in 1..Len(SectionOrder) :
               HasKey(config_data, SectionOrder[i]))
  /\ [][returned => config_data' = config_data /\ config' = config]_vars

C5_Witness ==
  /\ pc = "dump"
  /\ handle = output_file
  /\ fs[output_file] = FileOf(<<>>)
  /\ Keys(config_data) = SectionOrder

\* C6: on a write fault (at open, in yaml.dump, at close) write_config
\* prints the failure message, not the success message, and returns
\* normally, so the process exits with status 0; the process exits with a
\* non-zero status only if PyYAML is missing or main's handler ran.
C6_WriteFaultReported ==
  /\ (faults \cap WriteFaults # {}) => pc # "main_except"
  /\ (faults \cap WriteFaults # {} /\ pc \in {"main_return", "done"}) =>
       /\ MsgWriteFailed \in Range(stdout)
       /\ MsgSaved \notin Range(stdout)
  /\ (faults \cap WriteFaults # {} /\ pc = "done") => exitCode = 0
  /\ (pc = "done" /\ exitCode # 0) =>
       yaml = "missing" \/ MsgMainError \in Range(stdout)

C6_Witness ==
  /\ pc = "done"
  /\ "open" \in faults
  /\ exitCode = 0
  /\ stdout = <<MsgWriteFailed>>

\* C7: the file object is open only between the open and the end of the
\* with block, and only on the output path; on every path out of
\* write_config (success, dump fault, close fault) it is closed.
C7_HandleScoped ==
  /\ handle # NoHandle => pc \in {"dump", "exit_with"} /\ handle = output_file
  /\ pc \in {"print_saved", "except", "main_return", "main_except", "done"} =>
       handle = NoHandle

C7_Witness ==
  /\ pc = "except"
  /\ "dump" \in faults
  /\ opened = <<output_file>>
  /\ handle = NoHandle

\* C8 as stated: without an argument the snapshot is written to
\* system_config.yaml; with an argument P it is written to P and
\* system_config.yaml is neither created nor modified; at most one file is
\* opened for writing.  (Read for the runs whose write succeeds.)
C8_AsStated ==
  /\ Len(opened) <= 1
  /\ (pc = "done" /\ MsgSaved \in Range(stdout)) =>
       IF Len(argv) > 1
         THEN /\ fs[argv[2]] = FileOf(YamlDump(config_data))
              /\ fs[DefaultPath] = fs0[DefaultPath]
         ELSE fs[DefaultPath] = FileOf(YamlDump(config_data))

\* C8 amended: without an argument the snapshot is written to
\* system_config.yaml; with an argument P it is written to P, and
\* system_config.yaml is neither created nor modified provided P is not
\* system_config.yaml itself; in every run no path but the chosen one is
\* opened, created or modified, and at most one file is opened.
C8_OutputPath ==
  LET target == IF Len(argv) > 1 THEN argv[2] ELSE DefaultPath IN
    /\ Len(opened) <= 1
    /\ Range(opened) \subseteq {target}
    /\ \A p \in Paths \ {target} : fs[p] = fs0[p]
    /\ (pc = "done" /\ MsgSaved \in Range(stdout)) =>
         fs[target] = FileOf(YamlDump(config_data))

C8_Witness ==
  /\ pc = "done"
  /\ Len(argv) > 1
  /\ argv[2] = OtherPath
  /\ MsgSaved \in Range(stdout)
  /\ fs0[DefaultPath] = OldFile
  /\ fs[DefaultPath] = OldFile
  /\ fs[OtherPath] = FileOf(YamlDump(config_data))

\* C9: if PyYAML is missing the process prints the notice and exits with
\* status 1 at once: nothing is collected, no psutil function is called,
\* no file is opened or changed.
C9_NoYamlNoRun ==
  yaml = "missing" =>
    /\ pc = "done"
    /\ exitCode = 1
    /\ stdout = <<MsgNoYaml>>
    /\ config = <<>>
    /\ ~returned
    /\ called = {}
    /\ opened = <<>>
    /\ "open" \notin faults
    /\ fs = fs0

C9_Witness ==
  /\ yaml = "missing"
  /\ pc = "done"
  /\ exitCode = 1

\* C10: a failed write keeps the destination's previous content only when
\* the fault is at open: then no file has changed; when the open succeeded
\* and yaml.dump or the close faulted, the destination exists and holds a
\* proper prefix of the document (empty or partial), not its previous
\* content, while write_config reports only the failure message.
C10_FailedWriteContent ==
  pc \in {"main_return", "done"} =>
    /\ "open" \in faults => fs = fs0
    /\ (faults \cap {"dump", "close"} # {}) =>
         /\ fs[output_file].exists
         /\ fs[output_file].data \in ProperPrefixes(YamlDump(config_data))
         /\ fs[output_file] # OldFile
         /\ MsgWriteFailed \in Range(stdout)
         /\ MsgSaved \notin Range(stdout)

C10_Witness ==
  /\ pc = "done"
  /\ "dump" \in faults
  /\ fs0[output_file] = OldFile
  /\ fs[output_file] = FileOf(<<>>)
  /\ stdout = <<MsgWriteFailed>>

====
